---- MODULE Spec2Model ----
(***************************************************************************)
(* winston-seq: the Seq transport of winston (src/src/index.ts).           *)
(*                                                                         *)
(* The module models                                                       *)
(*   - the metadata formatter (format, checkCircular, formatError,         *)
(*     formatArray, formatProperties, ...) as a stack machine over a heap  *)
(*     of JavaScript objects: one FormatStep is one call of format on the  *)
(*     next child of the innermost formatArray / formatProperties loop;    *)
(*   - Transport.log with its setImmediate callback;                       *)
(*   - the pure encoders formatBuffer, formatFunction, defaultLevelMapper. *)
(***************************************************************************)
EXTENDS Integers, Sequences, FiniteSets, TLC

VARIABLES
    heap,        \* the JavaScript heap: object identity n |-> object
    options,     \* Transport.options (IOption)
    stack,       \* active formatArray / formatProperties frames, innermost last
    allValues,   \* the visit list of the running formatMeta call
    errors,      \* the error list of the running formatMeta call
    properties,  \* what format(meta, '$root', ...) returned
    fmt,         \* "idle" | "running" | "returned" | "threw"
    thrown,      \* the exception format threw ("": none)
    traversed,   \* history: the values whose children format started to traverse
    calls,       \* history: the log(info, next) calls made, in order
    immediates,  \* the setImmediate queue: indexes into calls
    cur,         \* the call whose callback is running, and its meta object
    seqEvent,    \* the seqEvent the running callback has built so far
    emitted,     \* the events handed to seqLogger.emit, in order
    logged,      \* number of 'logged' events the transport emitted
    nextCalls,   \* per call: how often next() was invoked
    outcome,     \* history, per call: "pending" | "emitted" | "caught" | "uncaught"
    consoleErrors, \* what console.error printed
    onErrorCalls,  \* what options.onError was invoked with
    pc,          \* where the running call of log is: "idle" | "scheduled" | "logged"
    delegated,   \* history: the number of flush / close calls handed to the seq
                 \* logger, and the log calls still queued at one of them
    encIn,       \* the input of the encoder under test
    encOut       \* its result

vars == <<heap, options, stack, allValues, errors, properties, fmt, thrown,
          traversed, calls, immediates, cur, seqEvent, emitted, logged, nextCalls, outcome,
          consoleErrors, onErrorCalls, pc, delegated, encIn, encOut>>

fmtVars == <<stack, allValues, errors, properties, fmt, thrown, traversed>>
logVars == <<calls, immediates, cur, seqEvent, emitted, logged, nextCalls,
             outcome, consoleErrors, onErrorCalls, pc, delegated>>
encVars == <<encIn, encOut>>

(***************************************************************************)
(* Bounds of the model.                                                    *)
(***************************************************************************)
MaxNodes == 4      \* objects in a generated metadata graph
MaxEdges == 3      \* properties / elements in a generated metadata graph
MaxBufferLen == 4  \* bytes of a byte sequence given to formatBuffer
MaxSrcLen == 12    \* characters of a function source given to formatFunction
MaxLimit == 10     \* largest maxBufferLength / maxFunctionSourceLength
MaxPad == 1        \* whitespace characters around a level label
MaxCalls == 2      \* log calls
MaxKeys == 2       \* enumerable properties of a record with a prototype
MaxDelegations == 1  \* flush / close calls

(***************************************************************************)
(* JavaScript values.  A value is a primitive or a reference to a heap     *)
(* object; two references are the same value (===) iff they name the same  *)
(* object.                                                                 *)
(***************************************************************************)
Null      == [k |-> "null"]
Undefined == [k |-> "undefined"]
Str(s)    == [k |-> "string", s |-> s]
Num(i)    == [k |-> "number", n |-> i]
Sym(s)    == [k |-> "symbol", s |-> s]
Ref(n)    == [k |-> "ref", n |-> n]
\* a property whose accessor throws when it is read
Getter    == [k |-> "getter"]

Prop(key, val) == [key |-> key, val |-> val]

\* Heap objects.  kids are the own properties in enumeration order (for an
\* array: its elements).  An Error's kids are Object.getOwnPropertyNames.
RecordObj(kids)   == [kind |-> "record", kids |-> kids]
\* Object.create(heap[proto]) with the own properties kids
DerivedObj(kids, proto) == [kind |-> "record", kids |-> kids, proto |-> proto]
ArrayObj(kids)    == [kind |-> "array", kids |-> kids]
ErrorObj(kids)    == [kind |-> "error", kids |-> kids]
DateObj(time)     == [kind |-> "date", kids |-> <<>>, time |-> time]
BufferObj(bytes)  == [kind |-> "buffer", kids |-> <<>>, bytes |-> bytes]
FunctionObj(name, src) == [kind |-> "function", kids |-> <<>>, name |-> name, src |-> src]

\* new Date(NaN): toISOString throws a RangeError
InvalidTime == -1
InvalidTimeError == "RangeError: Invalid time value"
\* what the throwing accessor throws
GetterError == "Error: accessor"
\* (3).toLowerCase()
LevelTypeError == "TypeError: level.toLowerCase is not a function"

Obj(val) == heap[val.n]

Last(s) == s[Len(s)]
Front(s) == SubSeq(s, 1, Len(s) - 1)

\* for (key in o): the enumerable properties of o, its own first, then those
\* of its prototype chain that no nearer object shadows, each with o[key]
RECURSIVE forIn(_)
forIn(o) ==
    IF "proto" \in DOMAIN o
    THEN o.kids \o SelectSeq(forIn(heap[o.proto]),
                             LAMBDA p : \A i \in 1..Len(o.kids) : o.kids[i].key # p.key)
    ELSE o.kids

\* o[key]: the property `key` of object o, its own or one it inherits, or
\* Undefined
Get(o, key) ==
    IF \E i \in 1..Len(forIn(o)) : forIn(o)[i].key = key
    THEN forIn(o)[CHOOSE i \in 1..Len(forIn(o)) : forIn(o)[i].key = key].val
    ELSE Undefined

(***************************************************************************)
(* Options                                                                 *)
(***************************************************************************)
NoLimit  == [set |-> FALSE, v |-> 0]
Limit(m) == [set |-> TRUE, v |-> m]

(***************************************************************************)
(* index.ts: the formatter                                                 *)
(***************************************************************************)
isError(val) ==
    /\ val.k = "ref"
    /\ \/ Obj(val).kind = "error"
       \/ /\ Obj(val).kind = "record"
          /\ Get(Obj(val), "name").k = "string"
          /\ Get(Obj(val), "message").k = "string"
          /\ Get(Obj(val), "stack").k = "string"

isPrimitive(val) ==
    val.k \in {"null", "undefined", "string", "number", "bigint", "boolean"}

isComplex(val) == val.k = "ref"

\* formatted values (IFormattedProperty)
FNull == [tag |-> "null"]
FString(s) == [tag |-> "string", s |-> s]
FCircular(path) == [tag |-> "$circular", path |-> path]
FError(props) == [tag |-> "$error", props |-> props]
FDate(iso) == [tag |-> "$date", iso |-> iso]
FBuffer(bytes) == [tag |-> "$buffer", bytes |-> bytes]
FSymbol(s) == [tag |-> "$symbol", s |-> s]
FFunction(name, src) == [tag |-> "$function", name |-> name, src |-> src]
FArray(items) == [tag |-> "array", items |-> items]
FObject(props) == [tag |-> "object", props |-> props]
FPrimitive(val) == [tag |-> "primitive", val |-> val]

\* the index of the first entry of the visit list whose value is val (0: none)
FindValue(val, visited) ==
    IF \E i \in 1..Len(visited) : visited[i].value = val
    THEN CHOOSE i \in 1..Len(visited) :
            /\ visited[i].value = val
            /\ \A j \in 1..(i - 1) : visited[j].value # val
    ELSE 0

\* checkCircular looking the value up by its path instead of its identity
checkCircularByPath(val, path, visited) ==
    IF isComplex(val)
    THEN IF \E i \in 1..Len(visited) : visited[i].path = path
         THEN [hit |-> TRUE, result |-> FCircular(path), allValues |-> visited]
         ELSE [hit |-> FALSE, result |-> FNull,
               allValues |-> Append(visited, [value |-> val, path |-> path])]
    ELSE [hit |-> FALSE, result |-> FNull, allValues |-> visited]

\* checkCircular reporting the path of the repeat instead of the first-seen path
checkCircularOwnPath(val, path, visited) ==
    IF isComplex(val)
    THEN IF FindValue(val, visited) # 0
         THEN [hit |-> TRUE, result |-> FCircular(path), allValues |-> visited]
         ELSE [hit |-> FALSE, result |-> FNull,
               allValues |-> Append(visited, [value |-> val, path |-> path])]
    ELSE [hit |-> FALSE, result |-> FNull, allValues |-> visited]

\* checkCircular: the $circular marker if val is in the visit list, and the
\* visit list afterwards
checkCircular(val, path, visited) ==
    IF isComplex(val)
    THEN IF FindValue(val, visited) # 0
         THEN [hit |-> TRUE,
               result |-> FCircular(visited[FindValue(val, visited)].path),
               allValues |-> visited]
         ELSE [hit |-> FALSE, result |-> FNull,
               allValues |-> Append(visited, [value |-> val, path |-> path])]
    ELSE [hit |-> FALSE, result |-> FNull, allValues |-> visited]

IdString(id) == ToString(id)

\* formatError numbering the back-references from 1
formatErrorOneBased(error, id) ==
    LET own == Obj(error).kids
        kept == SelectSeq(own, LAMBDA p : p.key # "stack")
    IN FError(Append(kept, Prop("stack", Str("*[" \o IdString(id + 1) \o "]"))))

formatError(error, id) ==
    LET own == Obj(error).kids
        kept == SelectSeq(own, LAMBDA p : p.key # "stack")
    IN FError(Append(kept, Prop("stack", Str("*[" \o IdString(id) \o "]"))))

toISOString(time) == "1970-01-01T00:00:00.00" \o ToString(time) \o "Z"

formatDate(date) == FDate(toISOString(Obj(date).time))

Min(a, b) == IF a < b THEN a ELSE b
Max(a, b) == IF a > b THEN a ELSE b

\* Buffer.prototype.slice(0, end), end >= 0
slice(bytes, end) == SubSeq(bytes, 1, Min(end, Len(bytes)))

\* formatBuffer taking a limit of 0 for "no limit"
formatBufferZeroUnbounded(bytes, maxLength) ==
    IF maxLength.set /\ maxLength.v < 0
    THEN FString("$buffer")
    ELSE FBuffer(IF maxLength.set /\ maxLength.v # 0 /\ Len(bytes) > maxLength.v
                 THEN slice(bytes, maxLength.v)
                 ELSE slice(bytes, Len(bytes)))

formatBuffer(bytes, maxLength) ==
    IF maxLength.set /\ maxLength.v <= 0
    THEN FString("$buffer")
    ELSE FBuffer(IF maxLength.set /\ maxLength.v # 0 /\ Len(bytes) > maxLength.v
                 THEN slice(bytes, maxLength.v)
                 ELSE slice(bytes, Len(bytes)))

formatSymbol(symbol) == FSymbol(symbol.s)

\* String.prototype.substring(0, end): a negative end counts as 0
substring(s, end) == SubSeq(s, 1, Min(Max(end, 0), Len(s)))

TruncationSuffix == "\n// ..."

formatFunction(fn, maxLength) ==
    IF maxLength.set /\ maxLength.v <= 0
    THEN FString("$function")
    ELSE FFunction(fn.name,
                   IF maxLength.set /\ maxLength.v # 0 /\ Len(fn.src) > maxLength.v
                   THEN substring(fn.src, maxLength.v - 8) \o TruncationSuffix
                   ELSE fn.src)

\* What one call format(val, path, errors, allValues, options) does before it
\* recurses: it returns a value, throws, or enters formatArray /
\* formatProperties ("descend").
Return(out, errs, visited) ==
    [act |-> "return", out |-> out, errors |-> errs, allValues |-> visited]
Throw(err, errs, visited) ==
    [act |-> "throw", out |-> FString(err), errors |-> errs, allValues |-> visited]
Descend(errs, visited) ==
    [act |-> "descend", out |-> FNull, errors |-> errs, allValues |-> visited]

format(val, path, errs, visited, opts) ==
    IF val.k \in {"null", "undefined"}
    THEN Return(FNull, errs, visited)
    ELSE
    LET circularResult == checkCircular(val, path, visited)
        seen == circularResult.allValues
    IN  IF circularResult.hit
        THEN Return(circularResult.result, errs, seen)
        ELSE IF isError(val)
        THEN LET id == Len(errs)
             IN Return(formatError(val, id),
                       Append(errs, [error |-> val, id |-> id]), seen)
        ELSE IF isPrimitive(val)
        THEN Return(FPrimitive(val), errs, seen)
        ELSE IF val.k = "ref" /\ Obj(val).kind = "date"
        THEN IF Obj(val).time = InvalidTime
             THEN Throw(InvalidTimeError, errs, seen)
             ELSE Return(formatDate(val), errs, seen)
        ELSE IF val.k = "ref" /\ Obj(val).kind = "buffer"
        THEN Return(formatBuffer(Obj(val).bytes, opts.maxBufferLength), errs, seen)
        ELSE IF val.k = "symbol"
        THEN Return(formatSymbol(val), errs, seen)
        ELSE IF Obj(val).kind = "function"
        THEN Return(formatFunction(Obj(val), opts.maxFunctionSourceLength), errs, seen)
        ELSE Descend(errs, seen)

\* a frame of formatArray / formatProperties: the object, its path, the index
\* of the next child and the children formatted so far
Frame(val, path) == [val |-> val, path |-> path, i |-> 1, out |-> <<>>]

\* the path format is called with for child i of the frame
ChildPath(frame) ==
    IF Obj(frame.val).kind = "array"
    THEN frame.path \o "[" \o ToString(frame.i - 1) \o "]"
    ELSE frame.path \o "." \o forIn(Obj(frame.val))[frame.i].key

\* what formatArray / formatProperties returns when its loop is over
FrameResult(frame) ==
    IF Obj(frame.val).kind = "array"
    THEN FArray(frame.out)
    ELSE FObject([i \in 1..Len(frame.out) |->
                    Prop(forIn(Obj(frame.val))[i].key, frame.out[i])])

\* the frames after the innermost pending call of format returned out
Deliver(frames, out) ==
    IF frames = <<>>
    THEN <<>>
    ELSE LET top == Last(frames)
         IN Append(Front(frames),
                   [top EXCEPT !.i = top.i + 1, !.out = Append(top.out, out)])

\* The effect of one call of format, made with the frames `frames` active.
Call(val, path, frames) ==
    LET r == format(val, path, errors, allValues, options)
    IN  /\ errors' = r.errors
        /\ allValues' = r.allValues
        /\ CASE r.act = "return" ->
                  /\ stack' = Deliver(frames, r.out)
                  /\ fmt' = IF frames = <<>> THEN "returned" ELSE "running"
                  /\ properties' = IF frames = <<>> THEN r.out ELSE properties
                  /\ traversed' = traversed
                  /\ thrown' = thrown
             [] r.act = "throw" ->
                  /\ stack' = <<>>
                  /\ fmt' = "threw"
                  /\ thrown' = r.out.s
                  /\ UNCHANGED <<properties, traversed>>
             [] r.act = "descend" ->
                  /\ stack' = Append(frames, Frame(val, path))
                  /\ fmt' = "running"
                  /\ traversed' = Append(traversed, val)
                  /\ UNCHANGED <<properties, thrown>>

\* formatMeta(options, meta): fresh lists, then format(meta, '$root', ...)
\* the visit list kept from one formatMeta call to the next
StaleAllValues == allValues

NewErrors == <<>>
NewAllValues == <<>>

formatMeta(meta) ==
    LET r == format(meta, "$root", NewErrors, NewAllValues, options)
    IN  /\ errors' = r.errors
        /\ allValues' = r.allValues
        /\ CASE r.act = "return" ->
                  /\ stack' = <<>>
                  /\ fmt' = "returned"
                  /\ properties' = r.out
                  /\ traversed' = <<>>
                  /\ thrown' = ""
             [] r.act = "throw" ->
                  /\ stack' = <<>>
                  /\ fmt' = "threw"
                  /\ properties' = FNull
                  /\ traversed' = <<>>
                  /\ thrown' = r.out.s
             [] r.act = "descend" ->
                  /\ stack' = <<Frame(meta, "$root")>>
                  /\ fmt' = "running"
                  /\ properties' = FNull
                  /\ traversed' = <<meta>>
                  /\ thrown' = ""

\* One step of the innermost formatArray / formatProperties loop: the loop is
\* over and the function returns, or it reads the next child and calls format.
FormatStep ==
    /\ fmt = "running"
    /\ stack # <<>>
    /\ LET top == Last(stack)
           kids == forIn(Obj(top.val))
       IN IF top.i > Len(kids)
          THEN /\ stack' = Deliver(Front(stack), FrameResult(top))
               /\ fmt' = IF Len(stack) = 1 THEN "returned" ELSE "running"
               /\ properties' = IF Len(stack) = 1 THEN FrameResult(top) ELSE properties
               /\ UNCHANGED <<allValues, errors, traversed, thrown>>
          ELSE IF kids[top.i].val.k = "getter"
          THEN /\ stack' = <<>>
               /\ fmt' = "threw"
               /\ thrown' = GetterError
               /\ UNCHANGED <<allValues, errors, properties, traversed>>
          ELSE Call(kids[top.i].val, ChildPath(top), stack)
    /\ UNCHANGED <<heap, options>>
    /\ UNCHANGED logVars
    /\ UNCHANGED encVars

(***************************************************************************)
(* index.ts: defaultLevelMapper                                            *)
(***************************************************************************)
UpperCase == "ABCDEFGHIJKLMNOPQRSTUVWXYZ"
LowerCase == "abcdefghijklmnopqrstuvwxyz"

Char(s, i) == SubSeq(s, i, i)

LowerChar(c) ==
    IF \E i \in 1..Len(UpperCase) : Char(UpperCase, i) = c
    THEN Char(LowerCase, CHOOSE i \in 1..Len(UpperCase) : Char(UpperCase, i) = c)
    ELSE c

\* String.prototype.toLowerCase
RECURSIVE toLowerCase(_)
toLowerCase(s) ==
    IF s = "" THEN ""
    ELSE LowerChar(Char(s, 1)) \o toLowerCase(SubSeq(s, 2, Len(s)))

\* defaultLevelMapper with the switch on the label as it was given
defaultLevelMapperCaseSensitive(level) ==
    IF level.k \in {"null", "undefined"} THEN "Information"
    ELSE IF level.k # "string" THEN LevelTypeError
    ELSE CASE level.s \in {"verbose", "silly"} -> "Verbose"
           [] level.s = "debug" -> "Debug"
           [] level.s = "info" -> "Information"
           [] level.s = "warn" -> "Warning"
           [] level.s = "error" -> "Error"
           [] level.s = "fatal" -> "Fatal"
           [] OTHER -> "Information"

\* level?.toLowerCase() is undefined for an absent level and a TypeError for
\* a level that is no string
defaultLevelMapper(level) ==
    IF level.k \in {"null", "undefined"} THEN "Information"
    ELSE IF level.k # "string" THEN LevelTypeError
    ELSE LET label == toLowerCase(level.s)
         IN CASE label \in {"verbose", "silly"} -> "Verbose"
              [] label = "debug" -> "Debug"
              [] label = "info" -> "Information"
              [] label = "warn" -> "Warning"
              [] label = "error" -> "Error"
              [] label = "fatal" -> "Fatal"
              [] OTHER -> "Information"

(***************************************************************************)
(* index.ts: the event (Transport.log, the setImmediate callback)          *)
(***************************************************************************)
\* `${value}` for the values a stack property holds here
TemplateString(val) ==
    CASE val.k = "string" -> val.s
      [] val.k = "number" -> ToString(val.n)
      [] OTHER -> "[object Object]"

\* Error.prototype.toString
ErrorToString(o) ==
    IF Get(o, "message").k = "string" /\ Get(o, "message").s # ""
    THEN "Error: " \o Get(o, "message").s
    ELSE "Error"

getErrorStack(err, id) ==
    IF err.k \in {"null", "undefined"}
    THEN "[" \o IdString(id) \o "]: <No stack>"
    ELSE LET stackText == IF Get(Obj(err), "stack").k # "undefined"
                          THEN TemplateString(Get(Obj(err), "stack"))
                          ELSE ErrorToString(Obj(err))
         IN "[" \o IdString(id) \o "]: " \o stackText

\* Array.prototype.join
RECURSIVE join(_, _)
join(strings, sep) ==
    IF strings = <<>> THEN ""
    ELSE IF Len(strings) = 1 THEN strings[1]
    ELSE strings[1] \o sep \o join(Tail(strings), sep)

NoEvent ==
    [built |-> FALSE, timestamp |-> "", level |-> "", messageTemplate |-> "",
     hasException |-> FALSE, exception |-> "",
     hasProperties |-> FALSE, properties |-> FNull]

NewEvent(timestamp, level, message) ==
    [NoEvent EXCEPT !.built = TRUE, !.timestamp = timestamp, !.level = level,
                    !.messageTemplate = message]

\* lines 346-357: the exception text and the properties of the event
assemble(event, props, errs) ==
    [event EXCEPT
        !.hasException = (Len(errs) # 0),
        !.exception = IF Len(errs) # 0
                      THEN join([i \in 1..Len(errs) |->
                                    getErrorStack(errs[i].error, errs[i].id)],
                                "\n\n")
                      ELSE "",
        !.hasProperties = (props # FNull),
        !.properties = props]

(***************************************************************************)
(* Metadata graphs.  A graph is a list of edges (src, tgt) sorted by src:  *)
(* the edges of src, in order, are its properties (elements); tgt 0 is a   *)
(* string.  Objects are numbered in breadth-first order from object 1, so  *)
(* every object is reachable from object 1 and no two lists describe the   *)
(* same graph up to the naming of the objects.                             *)
(***************************************************************************)
Edge(src, tgt) == [src |-> src, tgt |-> tgt]

RECURSIVE NodeCount(_)
NodeCount(es) ==
    IF es = <<>> THEN 1 ELSE Max(Last(es).tgt, NodeCount(Front(es)))

Extensions(es) ==
    LET mx == NodeCount(es)
        lo == IF es = <<>> THEN 1 ELSE Last(es).src
    IN {Edge(s, t) : s \in lo..mx, t \in 0..Min(mx + 1, MaxNodes)}

RECURSIVE Shapes(_)
Shapes(l) ==
    IF l = 0
    THEN {<<>>}
    ELSE LET prev == Shapes(l - 1)
         IN prev \cup UNION {{Append(es, e) : e \in Extensions(es)} :
                                es \in {p \in prev : Len(p) = l - 1}}

KeyNames == "abcdefgh"
KeyName(i) == SubSeq(KeyNames, i, i)

EdgesOf(es, n) == SelectSeq(es, LAMBDA e : e.src = n)

KidsOf(es, n) ==
    [i \in 1..Len(EdgesOf(es, n)) |->
        Prop(KeyName(i), IF EdgesOf(es, n)[i].tgt = 0
                         THEN Str("v")
                         ELSE Ref(EdgesOf(es, n)[i].tgt))]

InnerKinds == {"record", "array", "error"}
\* "bare-error": an Error whose stack property was deleted
LeafKinds == {"date", "buffer", "function", "bare-error"}

StackText(n) == "Error: e" \o ToString(n) \o "\n    at f" \o ToString(n)

MakeObj(kind, kids, n) ==
    CASE kind = "record" -> RecordObj(kids)
      [] kind = "array" -> ArrayObj(kids)
      [] kind = "error" ->
            ErrorObj(<<Prop("stack", Str(StackText(n))),
                       Prop("message", Str("e" \o ToString(n)))>> \o kids)
      [] kind = "bare-error" ->
            ErrorObj(<<Prop("message", Str("e" \o ToString(n)))>>)
      [] kind = "date" -> DateObj(n)
      [] kind = "buffer" -> BufferObj(<<n, n + 1, n + 2>>)
      [] kind = "function" ->
            FunctionObj("f" \o ToString(n), "function f" \o ToString(n) \o "(){}")

KindsFor(es) ==
    {kinds \in [1..NodeCount(es) -> InnerKinds \cup LeafKinds] :
        \A n \in 1..NodeCount(es) :
            kinds[n] \in LeafKinds => EdgesOf(es, n) = <<>>}

MakeHeap(es, kinds) ==
    [n \in 1..NodeCount(es) |-> MakeObj(kinds[n], KidsOf(es, n), n)]

DefaultOptions ==
    [maxBufferLength |-> NoLimit, maxFunctionSourceLength |-> NoLimit]

(***************************************************************************)
(* Spec: formatMeta on every metadata graph within the bounds.             *)
(***************************************************************************)
NoCall == [call |-> 0, meta |-> Null]

InitLogVars ==
    /\ calls = <<>>
    /\ immediates = <<>>
    /\ cur = NoCall
    /\ seqEvent = NoEvent
    /\ emitted = <<>>
    /\ logged = 0
    /\ nextCalls = <<>>
    /\ outcome = <<>>
    /\ consoleErrors = <<>>
    /\ onErrorCalls = <<>>
    /\ pc = "idle"
    /\ delegated = [n |-> 0, unsubmitted |-> {}]

InitFmtVars ==
    /\ stack = <<>>
    /\ allValues = <<>>
    /\ errors = <<>>
    /\ properties = FNull
    /\ fmt = "idle"
    /\ thrown = ""
    /\ traversed = <<>>

InitEncVars ==
    /\ encIn = [fn |-> "none"]
    /\ encOut = [fn |-> "none"]

Init ==
    /\ \E es \in Shapes(MaxEdges) : \E kinds \in KindsFor(es) :
          heap = MakeHeap(es, kinds)
    /\ options = DefaultOptions
    /\ InitFmtVars
    /\ InitLogVars
    /\ InitEncVars

MetaRoot == Ref(1)

\* formatMeta(options, meta) with meta the root object of the graph
FormatMeta ==
    /\ fmt = "idle"
    /\ formatMeta(MetaRoot)
    /\ UNCHANGED <<heap, options>>
    /\ UNCHANGED logVars
    /\ UNCHANGED encVars

\* the event built from what formatMeta returned
AssembleEvent ==
    /\ fmt = "returned"
    /\ ~seqEvent.built
    /\ seqEvent' = assemble(NewEvent("now", "Information", "m"), properties, errors)
    /\ UNCHANGED <<heap, options, calls, immediates, cur, emitted, logged,
                   nextCalls, outcome, consoleErrors, onErrorCalls, pc, delegated>>
    /\ UNCHANGED fmtVars
    /\ UNCHANGED encVars

Next == FormatMeta \/ FormatStep \/ AssembleEvent

Spec == Init /\ [][Next]_vars /\ WF_vars(Next)

(***************************************************************************)
(* index.ts: Transport.log and its setImmediate callback                   *)
(***************************************************************************)
\* the timestamps Date.parse accepts
ParsableTimestamps == {"2021-08-31T12:00:00.000Z"}

\* timestamp && !Number.isNaN(Date.parse(timestamp)) ? parsed : new Date()
timestampOf(timestamp) ==
    IF timestamp.k = "string" /\ timestamp.s \in ParsableTimestamps
    THEN timestamp.s
    ELSE "now"

\* the catch block swallowing the exception without a trace
CaughtSilently(c, err) ==
    /\ outcome' = [outcome EXCEPT ![c] = "caught"]
    /\ UNCHANGED <<consoleErrors, emitted, onErrorCalls>>

\* no catch block: the exception leaves the callback
Rethrown(c, err) ==
    /\ outcome' = [outcome EXCEPT ![c] = "uncaught"]
    /\ UNCHANGED <<consoleErrors, emitted, onErrorCalls>>

\* lines 360-362: catch (err) { console.error(tag, err) }
Caught(c, err) ==
    /\ consoleErrors' = Append(consoleErrors, [call |-> c, err |-> err])
    /\ outcome' = [outcome EXCEPT ![c] = "caught"]
    /\ UNCHANGED <<emitted, onErrorCalls>>

\* log(info, next) is entered and queues the callback (lines 332-363)
Log(info, next) ==
    /\ cur = NoCall
    /\ pc = "idle"
    /\ Len(calls) < MaxCalls
    /\ calls' = Append(calls, [info |-> info, next |-> next])
    /\ immediates' = Append(immediates, Len(calls) + 1)
    /\ nextCalls' = Append(nextCalls, 0)
    /\ outcome' = Append(outcome, "pending")
    /\ pc' = "scheduled"
    /\ UNCHANGED <<heap, options, cur, seqEvent, emitted, logged, consoleErrors,
                   onErrorCalls, delegated>>
    /\ UNCHANGED fmtVars
    /\ UNCHANGED encVars

\* line 365: this.emit('logged', info)
LogEmitLogged ==
    /\ pc = "scheduled"
    /\ logged' = logged + 1
    /\ pc' = "logged"
    /\ UNCHANGED <<heap, options, calls, immediates, cur, seqEvent, emitted,
                   nextCalls, outcome, consoleErrors, onErrorCalls, delegated>>
    /\ UNCHANGED fmtVars
    /\ UNCHANGED encVars

\* lines 367-370: next is called when it is a function, and log returns
LogNext ==
    /\ pc = "logged"
    /\ nextCalls' = [nextCalls EXCEPT ![Len(calls)] =
                         IF calls[Len(calls)].next THEN @ + 1 ELSE @]
    /\ pc' = "idle"
    /\ UNCHANGED <<heap, options, calls, immediates, cur, seqEvent, emitted,
                   logged, outcome, consoleErrors, onErrorCalls, delegated>>
    /\ UNCHANGED fmtVars
    /\ UNCHANGED encVars

\* line 333, setImmediate: a queued callback runs once the call that queued
\* it has returned
AnyTime == TRUE

Deferred == pc = "idle"

\* The callback starts (lines 335-344): info is destructured, which creates
\* the meta object, and the seqEvent is built, which maps the level.
ImmediateBegin ==
    /\ cur = NoCall
    /\ Deferred
    /\ immediates # <<>>
    /\ LET c == Head(immediates)
           info == calls[c].info
           level == defaultLevelMapper(info.level)
       IN /\ immediates' = Tail(immediates)
          /\ heap' = Append(heap, RecordObj(info.rest))
          /\ IF level = LevelTypeError
             THEN /\ Caught(c, LevelTypeError)
                  /\ UNCHANGED <<cur, seqEvent>>
             ELSE /\ cur' = [call |-> c, meta |-> Ref(Len(heap) + 1)]
                  /\ seqEvent' = NewEvent(timestampOf(info.timestamp), level, info.message)
                  /\ UNCHANGED <<outcome, consoleErrors, emitted, onErrorCalls>>
    /\ fmt' = "idle"
    /\ UNCHANGED <<stack, allValues, errors, properties, thrown, traversed>>
    /\ UNCHANGED <<options, calls, logged, nextCalls, pc, delegated>>
    /\ UNCHANGED encVars

\* line 346: formatMeta(this.options, meta)
ImmediateFormat ==
    /\ cur # NoCall
    /\ fmt = "idle"
    /\ formatMeta(cur.meta)
    /\ UNCHANGED <<heap, options>>
    /\ UNCHANGED logVars
    /\ UNCHANGED encVars

\* The callback ends: the event is completed and handed to seqLogger.emit
\* (lines 348-359), or the exception formatMeta threw is caught.
ImmediateEnd ==
    /\ cur # NoCall
    /\ fmt \in {"returned", "threw"}
    /\ IF fmt = "returned"
       THEN /\ emitted' = Append(emitted,
                             [call |-> cur.call, meta |-> cur.meta,
                              event |-> assemble(seqEvent, properties, errors)])
            /\ outcome' = [outcome EXCEPT ![cur.call] = "emitted"]
            /\ UNCHANGED <<consoleErrors, onErrorCalls>>
       ELSE Caught(cur.call, thrown)
    /\ cur' = NoCall
    /\ seqEvent' = NoEvent
    /\ fmt' = "idle"
    /\ UNCHANGED <<stack, allValues, errors, properties, thrown, traversed>>
    /\ UNCHANGED <<heap, options, calls, immediates, logged, nextCalls, pc, delegated>>
    /\ UNCHANGED encVars

\* the log calls whose callback has not run
Queued == {c \in 1..Len(outcome) : outcome[c] = "pending"}

\* one more call is handed to the seq logger, while the callbacks of the
\* calls in Queued have not run
Delegation == [n |-> delegated.n + 1,
               unsubmitted |-> delegated.unsubmitted \cup Queued]

\* close(), lines 372-374: return this.seqLogger.close()
close ==
    /\ cur = NoCall
    /\ pc = "idle"
    /\ delegated.n < MaxDelegations
    /\ delegated' = Delegation
    /\ UNCHANGED <<heap, options, calls, immediates, cur, seqEvent, emitted, logged,
                   nextCalls, outcome, consoleErrors, onErrorCalls, pc>>
    /\ UNCHANGED fmtVars
    /\ UNCHANGED encVars

\* flush(), lines 376-378: return this.seqLogger.flush()
flush ==
    /\ cur = NoCall
    /\ pc = "idle"
    /\ delegated.n < MaxDelegations
    /\ delegated' = Delegation
    /\ UNCHANGED <<heap, options, calls, immediates, cur, seqEvent, emitted, logged,
                   nextCalls, outcome, consoleErrors, onErrorCalls, pc>>
    /\ UNCHANGED fmtVars
    /\ UNCHANGED encVars

(***************************************************************************)
(* SpecLog: log calls on one transport.                                    *)
(***************************************************************************)
\* the objects the logged records refer to
LogHeap ==
    <<RecordObj(<<Prop("self", Ref(1))>>),
      ErrorObj(<<Prop("stack", Str(StackText(2))), Prop("message", Str("e2"))>>),
      ErrorObj(<<Prop("message", Str("e3"))>>),
      ArrayObj(<<Prop("0", Ref(2)), Prop("1", Ref(3))>>),
      DateObj(InvalidTime),
      RecordObj(<<Prop("port", Num(80)), Prop("secret", Getter)>>)>>

Info(level, timestamp, rest) ==
    [level |-> level, message |-> Str("m"), timestamp |-> timestamp, rest |-> rest]

LogInfos ==
    {Info(Str("info"), Undefined, <<Prop("o", Ref(1))>>),
     Info(Str("error"), Str("2021-08-31T12:00:00.000Z"), <<Prop("list", Ref(4))>>),
     Info(Str("warn"), Undefined, <<Prop("o", Ref(1)), Prop("when", Ref(5))>>),
     Info(Num(3), Undefined, <<Prop("o", Ref(1))>>),
     Info(Str("debug"), Str("not-a-date"), <<Prop("cfg", Ref(6))>>),
     Info(Undefined, Undefined, <<>>)}

InitLog ==
    /\ heap = LogHeap
    /\ options = DefaultOptions
    /\ InitFmtVars
    /\ InitLogVars
    /\ InitEncVars

NextLog ==
    \/ \E info \in LogInfos, next \in BOOLEAN : Log(info, next)
    \/ LogEmitLogged
    \/ LogNext
    \/ close
    \/ flush
    \/ ImmediateBegin
    \/ ImmediateFormat
    \/ FormatStep
    \/ ImmediateEnd

SpecLog == InitLog /\ [][NextLog]_vars /\ WF_vars(NextLog)

(***************************************************************************)
(* SpecProto: formatMeta on records that inherit enumerable properties.    *)
(* Object 1 is the metadata; its prototype is object 2, whose prototype is *)
(* object 3 or Object.prototype; object 4 is a plain record the properties *)
(* may refer to.                                                           *)
(***************************************************************************)
\* the lists of at most MaxKeys distinct keys taken from letters
KeyLists(letters) ==
    {ks \in UNION {[1..n -> letters] : n \in 0..MaxKeys} :
        \A i, j \in 1..Len(ks) : ks[i] = ks[j] => i = j}

\* the property lists with keys from letters and values from vals
PropLists(letters, vals) ==
    UNION {{[i \in 1..Len(ks) |-> Prop(KeyName(ks[i]), v[i])] :
               v \in [1..Len(ks) -> vals]} :
           ks \in KeyLists(letters)}

ProtoHeap(own, base, chained) ==
    <<DerivedObj(own, 2),
      IF chained THEN DerivedObj(base, 3) ELSE RecordObj(base),
      RecordObj(<<Prop(KeyName(MaxKeys + 1), Str("grand"))>>),
      RecordObj(<<Prop("k", Str("v"))>>)>>

InitProto ==
    /\ \E own \in PropLists(1..MaxKeys, {Str("own"), Ref(4)}),
          base \in PropLists(2..(MaxKeys + 1), {Str("base"), Ref(4)}),
          chained \in BOOLEAN :
          heap = ProtoHeap(own, base, chained)
    /\ options = DefaultOptions
    /\ InitFmtVars
    /\ InitLogVars
    /\ InitEncVars

NextProto == FormatMeta \/ FormatStep

SpecProto == InitProto /\ [][NextProto]_vars /\ WF_vars(NextProto)

(***************************************************************************)
(* Properties of the formatter                                             *)
(***************************************************************************)
\* The positions of a formatted tree in depth-first pre-order, each with its
\* path ('$root', [index] under a sequence, .key under a record), the
\* metadata value at that position and what was emitted there.
RECURSIVE Walk(_, _, _)
RECURSIVE WalkKids(_, _, _, _)
Walk(out, val, path) ==
    <<[path |-> path, val |-> val, out |-> out]>>
        \o (IF out.tag \in {"array", "object"}
            THEN WalkKids(out, val, path, 1)
            ELSE <<>>)
WalkKids(out, val, path, i) ==
    IF out.tag = "array"
    THEN IF i > Len(out.items) THEN <<>>
         ELSE Walk(out.items[i], forIn(Obj(val))[i].val,
                   path \o "[" \o ToString(i - 1) \o "]")
              \o WalkKids(out, val, path, i + 1)
    ELSE IF i > Len(out.props) THEN <<>>
         ELSE Walk(out.props[i].val, forIn(Obj(val))[i].val,
                   path \o "." \o out.props[i].key)
              \o WalkKids(out, val, path, i + 1)

Positions == Walk(properties, MetaRoot, "$root")

Markers(w) == {i \in 1..Len(w) : w[i].out.tag = "$circular"}

\* the first position of the tree that holds the value of position i
FirstOf(w, i) == CHOOSE j \in 1..i :
                    /\ w[j].val = w[i].val
                    /\ \A h \in 1..(j - 1) : w[h].val # w[i].val

RefsOf(kids) == {kids[i].val.n : i \in {j \in 1..Len(kids) : kids[j].val.k = "ref"}}

\* the objects format reaches from n in one step: the properties of a record
\* and the elements of a sequence (an error-like value is copied, not entered)
TraversalSucc(n) ==
    IF heap[n].kind \in {"record", "array"} /\ ~isError(Ref(n))
    THEN RefsOf(forIn(heap[n]))
    ELSE {}

\* the objects n refers to
HeapSucc(n) == RefsOf(heap[n].kids)

RECURSIVE TraversalReach(_)
TraversalReach(S) ==
    LET T == S \cup UNION {TraversalSucc(n) : n \in S}
    IN IF T = S THEN S ELSE TraversalReach(T)

RECURSIVE HeapReach(_)
HeapReach(S) ==
    LET T == S \cup UNION {HeapSucc(n) : n \in S}
    IN IF T = S THEN S ELSE HeapReach(T)

\* the metadata root is a record or sequence that contains itself
RootContainsItself ==
    /\ heap[MetaRoot.n].kind \in {"record", "array"}
    /\ ~isError(MetaRoot)
    /\ MetaRoot.n \in TraversalReach(TraversalSucc(MetaRoot.n))

NoDuplicates(seq) ==
    \A i, j \in 1..Len(seq) : seq[i] = seq[j] => i = j

(* C1: every composite value is registered in the visit list at most once   *)
(* and has its children traversed at most once; when format has returned,   *)
(* the registered values are exactly the objects reachable from the root     *)
(* through records and sequences.                                           *)
C1_VisitedAtMostOnce ==
    /\ NoDuplicates([i \in 1..Len(allValues) |-> allValues[i].value])
    /\ NoDuplicates(traversed)
    /\ \A i \in 1..Len(traversed) :
          \E j \in 1..Len(allValues) : allValues[j].value = traversed[i]
    /\ fmt = "returned" =>
          {allValues[i].value : i \in 1..Len(allValues)}
             = {Ref(n) : n \in TraversalReach({MetaRoot.n})}

(* C1: for every metadata graph, cyclic ones included, formatMeta            *)
(* terminates, and it visits every composite value at most once.            *)
C1_TerminatesVisitingOnce ==
    /\ []C1_VisitedAtMostOnce
    /\ <>(fmt = "returned")

C1_Witness ==
    /\ fmt = "returned"
    /\ RootContainsItself
    /\ Len(traversed) >= 2
    /\ \E n \in 2..Len(heap) : n \in TraversalReach(TraversalSucc(n))

(* C2 as claimed: when the root contains itself, the tree holds exactly one *)
(* $circular marker, and its path is the first-seen path of the repeated     *)
(* value.                                                                    *)
C2_ExactlyOneMarker ==
    (fmt = "returned" /\ RootContainsItself) =>
        LET w == Positions
        IN /\ Cardinality(Markers(w)) = 1
           /\ \A i \in Markers(w) : w[i].out.path = w[FirstOf(w, i)].path

(* C2 as amended: the tree holds a $circular marker at exactly the          *)
(* positions where an object that was seen before repeats (one marker when   *)
(* there is one such position), the marker's path is the path of the first   *)
(* position of that object, and o = {} with o.self = o gives                 *)
(* {self: {$circular: '$root'}}.                                             *)
C2_MarkerAtEveryRepeat ==
    fmt = "returned" =>
        LET w == Positions
        IN /\ \A i \in 1..Len(w) :
                 /\ w[i].out.tag = "$circular" <=>
                       (w[i].val.k = "ref" /\ FirstOf(w, i) # i)
                 /\ w[i].out.tag = "$circular" =>
                       w[i].out.path = w[FirstOf(w, i)].path
           /\ heap = <<RecordObj(<<Prop("a", MetaRoot)>>)>> =>
                 properties = FObject(<<Prop("a", FCircular("$root"))>>)

C2_Witness ==
    /\ fmt = "returned"
    /\ heap = <<RecordObj(<<Prop("a", MetaRoot)>>)>>
    /\ properties = FObject(<<Prop("a", FCircular("$root"))>>)

\* the heap objects a formatted tree refers to directly
RECURSIVE RawRefs(_)
RawRefs(out) ==
    CASE out.tag = "$error" -> RefsOf(out.props)
      [] out.tag = "array" -> UNION {RawRefs(out.items[i]) : i \in 1..Len(out.items)}
      [] out.tag = "object" -> UNION {RawRefs(out.props[i].val) : i \in 1..Len(out.props)}
      [] OTHER -> {}

(* C3: the tree format returned is finite and acyclic: no object that can   *)
(* be reached from the tree lies on a cycle.                                 *)
C3_TreeAcyclic ==
    fmt = "returned" =>
        \A n \in HeapReach(RawRefs(properties)) : n \notin HeapReach(HeapSucc(n))

\* the positions of the tree that hold an $error, in pre-order
ErrorPositions == SelectSeq(Positions, LAMBDA e : e.out.tag = "$error")

(* C4: the error-like values get the ids 0, 1, 2, ... in the order of their *)
(* first encounter in the pre-order traversal; each is replaced by           *)
(* {$error: {own properties except stack, stack: '*[id]'}}; the exception    *)
(* text is one block '[id]: <stack text>' per error, in id order, joined by  *)
(* a blank line; {list: [errA, errB]} gives '[0]: ...' then '[1]: ...'.      *)
C4_ErrorIdsInEncounterOrder ==
    (fmt = "returned" /\ seqEvent.built) =>
        LET e == ErrorPositions
            stackOf(val) == IF Get(Obj(val), "stack").k = "string"
                            THEN Get(Obj(val), "stack").s
                            ELSE ErrorToString(Obj(val))
        IN /\ Len(errors) = Len(e)
           /\ \A i \in 1..Len(e) :
                 /\ errors[i].id = i - 1
                 /\ errors[i].error = e[i].val
                 /\ e[i].out.props =
                       Append(SelectSeq(Obj(e[i].val).kids, LAMBDA p : p.key # "stack"),
                              Prop("stack", Str("*[" \o ToString(i - 1) \o "]")))
           /\ {errors[i].error : i \in 1..Len(errors)}
                 = {Ref(n) : n \in {m \in TraversalReach({MetaRoot.n}) : isError(Ref(m))}}
           /\ seqEvent.hasException = (Len(e) > 0)
           /\ seqEvent.exception =
                 join([i \in 1..Len(e) |->
                         "[" \o ToString(i - 1) \o "]: " \o stackOf(e[i].val)], "\n\n")
           /\ (/\ Len(heap) = 4
               /\ heap[1] = RecordObj(<<Prop("a", Ref(2))>>)
               /\ heap[2] = ArrayObj(<<Prop("a", Ref(3)), Prop("b", Ref(4))>>)
               /\ isError(Ref(3)) /\ isError(Ref(4)))
              => /\ Len(errors) = 2
                 /\ seqEvent.exception =
                       "[0]: " \o stackOf(Ref(3)) \o "\n\n" \o "[1]: " \o stackOf(Ref(4))

C4_Witness ==
    /\ fmt = "returned"
    /\ seqEvent.built
    /\ Len(heap) = 4
    /\ heap[1] = RecordObj(<<Prop("a", Ref(2))>>)
    /\ heap[2] = ArrayObj(<<Prop("a", Ref(3)), Prop("b", Ref(4))>>)
    /\ seqEvent.exception =
          "[0]: " \o StackText(3) \o "\n\n" \o "[1]: " \o StackText(4)
    /\ properties.props[1].val.items[2].props[2] = Prop("stack", Str("*[1]"))

(* C11: a timestamp or a byte sequence is never entered into the visit list, *)
(* and every occurrence of one in the metadata is formatted as {$date: ...}  *)
(* respectively {$buffer: ...}, never as a $circular marker.                 *)
C11_DatesAndBuffersUntracked ==
    /\ \A i \in 1..Len(allValues) :
          heap[allValues[i].value.n].kind \notin {"date", "buffer"}
    /\ fmt = "returned" =>
          LET w == Positions
          IN \A i \in 1..Len(w) :
                (w[i].val.k = "ref" /\ Obj(w[i].val).kind \in {"date", "buffer"}) =>
                    w[i].out.tag = "$" \o Obj(w[i].val).kind

\* the keys of a list of properties, in order
Keys(props) == [i \in 1..Len(props) |-> props[i].key]

(* C12: a formatted record has exactly the own enumerable keys of the       *)
(* record, none inherited from its prototype chain, in enumeration order.    *)
C12_OwnKeysInOrder ==
    fmt = "returned" =>
        LET w == Positions
        IN \A i \in 1..Len(w) :
              w[i].out.tag = "object" =>
                  Keys(w[i].out.props) = Keys(Obj(w[i].val).kids)

(***************************************************************************)
(* SpecEnc: the encoders and the level mapper on every input within the    *)
(* bounds.                                                                 *)
(***************************************************************************)
Bytes == {0, 255}
Buffers == UNION {[1..l -> Bytes] : l \in 0..MaxBufferLen}

Limits == {NoLimit} \cup {Limit(m) : m \in -1..MaxLimit}

\* the sources of the functions () => 1, () => 12, () => 123, ...
Digits == "12345678901234567890"
Source(len) == "()=>" \o SubSeq(Digits, 1, len - 4)
Functions == {FunctionObj("", Source(len)) : len \in 5..MaxSrcLen}

Spaces(n) == SubSeq("          ", 1, n)
UpperChar(c) ==
    IF \E i \in 1..Len(LowerCase) : Char(LowerCase, i) = c
    THEN Char(UpperCase, CHOOSE i \in 1..Len(LowerCase) : Char(LowerCase, i) = c)
    ELSE c
RECURSIVE toUpperCase(_)
toUpperCase(s) ==
    IF s = "" THEN ""
    ELSE UpperChar(Char(s, 1)) \o toUpperCase(SubSeq(s, 2, Len(s)))
Capitalized(s) ==
    IF s = "" THEN "" ELSE UpperChar(Char(s, 1)) \o SubSeq(s, 2, Len(s))

Words == {"verbose", "silly", "debug", "info", "warn", "error", "fatal",
          "http", "unknown-level", ""}
Labels ==
    {Spaces(l) \o w \o Spaces(r) :
        l \in 0..MaxPad, r \in 0..MaxPad,
        w \in UNION {{x, toUpperCase(x), Capitalized(x)} : x \in Words}}
Levels == {Str(label) : label \in Labels} \cup {Undefined, Null}

InitEnc ==
    /\ heap = <<>>
    /\ options = DefaultOptions
    /\ InitFmtVars
    /\ InitLogVars
    /\ InitEncVars

ApplyFormatBuffer ==
    /\ encIn.fn = "none"
    /\ \E bytes \in Buffers, maxLength \in Limits :
          /\ encIn' = [fn |-> "formatBuffer", buffer |-> bytes, maxLength |-> maxLength]
          /\ encOut' = formatBuffer(bytes, maxLength)
    /\ UNCHANGED <<heap, options>>
    /\ UNCHANGED fmtVars
    /\ UNCHANGED logVars

ApplyFormatFunction ==
    /\ encIn.fn = "none"
    /\ \E fn \in Functions, maxLength \in Limits :
          /\ encIn' = [fn |-> "formatFunction", function |-> fn, maxLength |-> maxLength]
          /\ encOut' = formatFunction(fn, maxLength)
    /\ UNCHANGED <<heap, options>>
    /\ UNCHANGED fmtVars
    /\ UNCHANGED logVars

ApplyLevelMapper ==
    /\ encIn.fn = "none"
    /\ \E level \in Levels :
          /\ encIn' = [fn |-> "defaultLevelMapper", level |-> level]
          /\ encOut' = [level |-> defaultLevelMapper(level)]
    /\ UNCHANGED <<heap, options>>
    /\ UNCHANGED fmtVars
    /\ UNCHANGED logVars

NextEnc == ApplyFormatBuffer \/ ApplyFormatFunction \/ ApplyLevelMapper

SpecEnc == InitEnc /\ [][NextEnc]_vars

(***************************************************************************)
(* Properties of the encoders                                              *)
(***************************************************************************)
(* C7: for a maximum > 0 the emitted source text is at most the maximum     *)
(* long: the first (max - 8) characters and the suffix '\n// ...' when the  *)
(* source is longer than the maximum, the full source otherwise; for a      *)
(* maximum <= 0 the result is the token '$function'.                         *)
C7_SourceWithinMaximum ==
    (encIn.fn = "formatFunction" /\ encIn.maxLength.set) =>
        LET max == encIn.maxLength.v
            src == encIn.function.src
        IN IF max <= 0
           THEN encOut = FString("$function")
           ELSE /\ encOut.tag = "$function"
                /\ Len(encOut.src) <= max
                /\ encOut.src = IF Len(src) > max
                                THEN SubSeq(src, 1, max - 8) \o "\n// ..."
                                ELSE src

(* C8: formatBuffer gives the token '$buffer' for a limit <= 0, the first m *)
(* bytes for a limit m > 0 that the sequence exceeds, a copy of the whole    *)
(* sequence otherwise (also when no limit is set); the emitted bytes are the *)
(* prefix of b of length min(length(b), m).                                  *)
C8_BufferPrefix ==
    encIn.fn = "formatBuffer" =>
        LET b == encIn.buffer
            m == encIn.maxLength
        IN /\ (m.set /\ m.v <= 0) => encOut = FString("$buffer")
           /\ (m.set /\ m.v > 0 /\ Len(b) > m.v) =>
                 encOut = FBuffer([i \in 1..m.v |-> b[i]])
           /\ (~m.set \/ (m.v > 0 /\ Len(b) <= m.v)) => encOut = FBuffer(b)
           /\ (m.set /\ m.v > 0) =>
                 /\ Len(encOut.bytes) = Min(Len(b), m.v)
                 /\ \A i \in 1..Len(encOut.bytes) : encOut.bytes[i] = b[i]

C8_Witness ==
    /\ encIn.fn = "formatBuffer"
    /\ encIn.maxLength = Limit(2)
    /\ Len(encIn.buffer) = 3
    /\ encOut = FBuffer(SubSeq(encIn.buffer, 1, 2))

Whitespace == {" "}

\* String.prototype.trim
RECURSIVE Trim(_)
Trim(s) ==
    IF s = "" THEN ""
    ELSE IF Char(s, 1) \in Whitespace THEN Trim(SubSeq(s, 2, Len(s)))
    ELSE IF Char(s, Len(s)) \in Whitespace THEN Trim(SubSeq(s, 1, Len(s) - 1))
    ELSE s

\* the default table
LevelTable(label) ==
    CASE label \in {"verbose", "silly"} -> "Verbose"
      [] label = "debug" -> "Debug"
      [] label = "info" -> "Information"
      [] label = "warn" -> "Warning"
      [] label = "error" -> "Error"
      [] label = "fatal" -> "Fatal"
      [] OTHER -> "Information"

(* C9 as claimed: the default level mapper looks the label up trimmed and   *)
(* lower-cased; an absent label maps to Information.                         *)
C9_TrimmedCaseInsensitive ==
    encIn.fn = "defaultLevelMapper" =>
        encOut.level = IF encIn.level.k = "string"
                       THEN LevelTable(toLowerCase(Trim(encIn.level.s)))
                       ELSE "Information"

(* C9 as amended: the default level mapper looks the label up lower-cased   *)
(* and untrimmed: a label with leading or trailing whitespace, like every    *)
(* other unknown label, the empty label and an absent label, maps to         *)
(* Information.                                                              *)
C9_CaseInsensitiveUntrimmed ==
    encIn.fn = "defaultLevelMapper" =>
        /\ encOut.level = IF encIn.level.k = "string"
                          THEN LevelTable(toLowerCase(encIn.level.s))
                          ELSE "Information"
        /\ (encIn.level.k = "string" /\ Trim(encIn.level.s) # encIn.level.s)
              => encOut.level = "Information"

C9_Witness ==
    /\ encIn.fn = "defaultLevelMapper"
    /\ encIn.level = Str(" FATAL")
    /\ encOut.level = "Information"

(***************************************************************************)
(* Properties of Transport.log                                             *)
(***************************************************************************)
HasGetter(kids) == \E i \in 1..Len(kids) : kids[i].val.k = "getter"

\* formatting or mapping the level of this record raises an exception
Raises(info) ==
    \/ info.level.k \notin {"string", "null", "undefined"}
    \/ HasGetter(info.rest)
    \/ \E n \in TraversalReach(RefsOf(info.rest)) :
          \/ heap[n].kind = "date" /\ heap[n].time = InvalidTime
          \/ /\ heap[n].kind \in {"record", "array"}
             /\ ~isError(Ref(n))
             /\ HasGetter(forIn(heap[n]))

EventsOf(c) == {k \in 1..Len(emitted) : emitted[k].call = c}

\* the number of calls of log that have returned
Returned == IF pc = "idle" THEN Len(calls) ELSE Len(calls) - 1

(* C5: log never lets an exception escape, emits 'logged' and invokes next  *)
(* once per call (when next is a function), also for a record whose          *)
(* formatting or level mapping raises; such a record submits no event, and   *)
(* every other record, logged before or after it, submits exactly one.       *)
C5_LogNeverThrows ==
    /\ logged = IF pc = "scheduled" THEN Returned ELSE Len(calls)
    /\ Len(nextCalls) = Len(calls)
    /\ \A c \in 1..Len(calls) :
          /\ nextCalls[c] = IF calls[c].next /\ c <= Returned THEN 1 ELSE 0
          /\ outcome[c] # "uncaught"
          /\ outcome[c] = "pending" =>
                (cur.call = c \/ \E i \in 1..Len(immediates) : immediates[i] = c)
          /\ outcome[c] = "caught" =>
                (Raises(calls[c].info) /\ EventsOf(c) = {})
          /\ outcome[c] = "emitted" =>
                (~Raises(calls[c].info) /\ Cardinality(EventsOf(c)) = 1)
          /\ outcome[c] = "pending" => EventsOf(c) = {}

C5_Witness ==
    /\ Len(calls) = 2
    /\ Raises(calls[1].info)
    /\ calls[1].next
    /\ outcome = <<"caught", "emitted">>
    /\ Len(emitted) = 1

(* C6 as claimed: every exception raised while a record is formatted is     *)
(* passed to the onError hook.                                               *)
C6_OnErrorInvoked ==
    \A c \in 1..Len(calls) :
        outcome[c] = "caught" =>
            \E i \in 1..Len(onErrorCalls) : onErrorCalls[i].call = c

(* C6 as amended: every exception raised while a record is formatted is     *)
(* caught and written with console.error, once; log does not invoke the      *)
(* onError hook.                                                             *)
C6_ReportedOnConsole ==
    /\ onErrorCalls = <<>>
    /\ \A c \in 1..Len(calls) :
          Cardinality({i \in 1..Len(consoleErrors) : consoleErrors[i].call = c})
             = IF outcome[c] = "caught" THEN 1 ELSE 0
    /\ \A i \in 1..Len(consoleErrors) :
          consoleErrors[i].err \in {LevelTypeError, InvalidTimeError, GetterError}

C6_Witness ==
    /\ Len(calls) >= 1
    /\ outcome[1] = "caught"
    /\ consoleErrors = <<[call |-> 1, err |-> InvalidTimeError]>>
    /\ onErrorCalls = <<>>

(* C10: every formatting run starts with an empty visit list and an empty   *)
(* error list: the lists of a run hold only values of the record being       *)
(* formatted, an event holds a $circular marker only where an object repeats *)
(* within that event's own metadata, and its error ids start at 0.           *)
C10_CallsIndependent ==
    /\ (cur # NoCall /\ fmt # "idle") =>
          /\ Len(allValues) > 0 =>
                allValues[1] = [value |-> cur.meta, path |-> "$root"]
          /\ \A i \in 1..Len(allValues) :
                allValues[i].value.n \in TraversalReach({cur.meta.n})
          /\ \A i \in 1..Len(errors) :
                /\ errors[i].id = i - 1
                /\ errors[i].error.n \in TraversalReach({cur.meta.n})
    /\ \A k \in 1..Len(emitted) :
          LET w == Walk(emitted[k].event.properties, emitted[k].meta, "$root")
              e == SelectSeq(w, LAMBDA x : x.out.tag = "$error")
          IN /\ \A i \in 1..Len(w) :
                   w[i].out.tag = "$circular" <=>
                      (w[i].val.k = "ref" /\ FirstOf(w, i) # i)
             /\ \A j \in 1..Len(e) :
                   Last(e[j].out.props) = Prop("stack", Str("*[" \o ToString(j - 1) \o "]"))
             /\ emitted[k].event.hasException = (Len(e) > 0)
             /\ Len(e) > 0 => SubSeq(emitted[k].event.exception, 1, 5) = "[0]: "

C10_Witness ==
    /\ Len(emitted) = 2
    /\ calls[1].info = calls[2].info
    /\ \A k \in 1..2 :
          emitted[k].event.properties =
             FObject(<<Prop("o", FObject(<<Prop("self", FCircular("$root.o"))>>))>>)

(* C13: formatting and submission are deferred: the callback of a log call  *)
(* runs, and its event is submitted, only after that call has emitted        *)
(* 'logged', invoked next (when it is a function) and returned; at most one  *)
(* event is submitted per log call.                                          *)
C13_SubmitDeferred ==
    \A c \in 1..Len(calls) :
        /\ (cur.call = c \/ outcome[c] # "pending") =>
              /\ c <= Returned
              /\ logged >= c
              /\ nextCalls[c] = IF calls[c].next THEN 1 ELSE 0
        /\ Cardinality(EventsOf(c)) <= 1

C13_Witness ==
    /\ Len(calls) = 2
    /\ calls[1].next /\ ~calls[2].next
    /\ outcome = <<"emitted", "emitted">>
    /\ Len(emitted) = 2
    /\ logged = 2
    /\ nextCalls = <<1, 0>>

(* C14: when flush or close is handed to the seq logger, every log call     *)
(* that returned before has had its callback run: its event was submitted    *)
(* (or its exception caught).                                                *)
C14_NoRecordLost == delegated.unsubmitted = {}

====
